---- MODULE Spec2Model ----
(***************************************************************************)
(* The geo module of openwisp-controller: Location, FloorPlan and          *)
(* DeviceLocation (geo/models.py) and the admin form that reconciles them, *)
(* DeviceLocationForm (geo/admin.py).                                      *)
(*                                                                         *)
(* The stored rows are the state.  One submission of the inline form is    *)
(* one step: field cleaning (clean_floorplan), clean(), the model          *)
(* validation a ModelForm runs on its instance (DeviceLocation.clean) and, *)
(* when no error was raised, save().  All devices and rows belong to one   *)
(* organization, so the organization checks of the tenancy mixins pass.    *)
(***************************************************************************)
EXTENDS Integers, FiniteSets, Sequences, TLC

\* ------------------------------------------------------------------ bounds
MaxLocations == 2
MaxFloorPlans == 1
MaxFloor == 1

\* The devices, identified by their names (Device.name).
Devices == {"d1", "d2"}

LocationIds == 1 .. MaxLocations
FloorPlanIds == 1 .. MaxFloorPlans
\* No row (a null foreign key, an empty raw id, an unsaved object's pk).
None == 0

\* ------------------------------------------------------------------ values
LOCATION_TYPES == {"outdoor", "indoor", "mobile"}
CHOICES == {"", "new", "existing"}

\* Submitted text; "" is a field left blank.
FormNames == {"", "HQ"}
FormAddresses == {"", "a"}
FormGeometries == {"", "g"}
FormImages == {"", "img"}
FormIndoor == {"", "p"}
\* An integer field's cleaned value: <<>> when blank, <<n>> otherwise.
NoFloor == <<>>
FormFloors == {NoFloor} \cup {<<n>> : n \in 0 .. MaxFloor}

VARIABLES
    locations,        \* Location rows: id -> [name, address, geometry]
    floorplans,       \* FloorPlan rows: id -> [location, floor, image]
    devicelocations,  \* DeviceLocation rows: device -> [type, location, floorplan]
    phase,            \* "idle", or where the current form submission stands
    req,              \* the submission in flight: [device, form]
    resp              \* its outcome: [result, errors, initial]

vars == <<locations, floorplans, devicelocations, phase, req, resp>>

\* A device without a DeviceLocation row; also a new DeviceLocation().
NoDeviceLocation == [type |-> "", location |-> None, floorplan |-> None]

\* ------------------------------------------------------------------ objects
\* A model instance in memory.  ref says whether the variable holds None, an
\* object that was never saved (pk None) or a stored row's object.
NoRef == [ref |-> "none", pk |-> None]
StoredRef(pk) == [ref |-> "stored", pk |-> pk]

\* Location(): a fresh instance, name and address blank, geometry null.
NewLocation ==
    [ref |-> "unsaved", pk |-> None, name |-> "", address |-> "", geometry |-> ""]

\* The instance of a stored Location row.
LocationObject(pk) ==
    [ref |-> "stored", pk |-> pk, name |-> locations[pk].name,
     address |-> locations[pk].address, geometry |-> locations[pk].geometry]

\* FloorPlan(): a fresh instance, no location, floor null, no image.
NewFloorPlan ==
    [ref |-> "unsaved", pk |-> None, location |-> NoRef, floor |-> NoFloor,
     image |-> ""]

NoFloorPlan ==
    [ref |-> "none", pk |-> None, location |-> NoRef, floor |-> NoFloor,
     image |-> ""]

\* The instance of a stored FloorPlan row.
FloorPlanObject(pk) ==
    [ref |-> "stored", pk |-> pk, location |-> StoredRef(floorplans[pk].location),
     floor |-> <<floorplans[pk].floor>>, image |-> floorplans[pk].image]

\* The DeviceLocation instance the inline form is bound to: the device's row,
\* or a new DeviceLocation(device=d).
InstanceOf(d) ==
    LET row == devicelocations[d] IN
    [type |-> row.type,
     location |-> IF row.location = None THEN NoRef ELSE StoredRef(row.location),
     floorplan |-> IF row.floorplan = None THEN NoFloorPlan
                   ELSE FloorPlanObject(row.floorplan)]

\* Model.__eq__ as used by `self.location != self.floorplan.location`: the
\* same row, or the same object when neither was saved.
ModelEq(a, b) == a.ref = b.ref /\ a.pk = b.pk

\* ------------------------------------------------------------------ ids
FreeLocationIds == LocationIds \ DOMAIN locations
FreeFloorPlanIds == FloorPlanIds \ DOMAIN floorplans
NextLocationId == CHOOSE i \in FreeLocationIds : \A j \in FreeLocationIds : i <= j
NextFloorPlanId == CHOOSE i \in FreeFloorPlanIds : \A j \in FreeFloorPlanIds : i <= j

\* ------------------------------------------------------------------ the form
\* The submitted fields of DeviceLocationForm.  location holds the raw id of a
\* stored Location or None, floorplan the submitted pk (which may name no row).
AllForms ==
    [type : LOCATION_TYPES,
     location_selection : CHOICES,
     location : {None} \cup LocationIds,
     name : FormNames,
     address : FormAddresses,
     geometry : FormGeometries,
     floorplan_selection : CHOICES,
     floorplan : {None} \cup FloorPlanIds,
     floor : FormFloors,
     image : FormImages,
     indoor : FormIndoor]

\* The geographic fieldset as the page sends it: a new location fully
\* described, nothing at all, or a stored location picked, its name left alone
\* or retyped.
NewLocationFields(f) ==
    /\ f.location = None /\ f.location_selection = "new"
    /\ f.name # "" /\ f.address # "" /\ f.geometry # ""
BlankLocationFields(f) ==
    /\ f.location = None /\ f.location_selection = ""
    /\ f.name = "" /\ f.address = "" /\ f.geometry = ""
PickedLocationFields(f) ==
    /\ f.location # None /\ f.location_selection = "existing"
    /\ f.address = "" /\ f.geometry = ""

\* The indoor fieldset as the page sends it: nothing at all, a floor plan
\* picked by pk, or a new floor plan described.
BlankIndoorFields(f) ==
    /\ f.floorplan_selection = "" /\ f.floorplan = None /\ f.floor = NoFloor
    /\ f.image = "" /\ f.indoor = ""
PickedIndoorFields(f) ==
    /\ f.floorplan_selection = "existing" /\ f.floorplan # None
    /\ f.floor = <<MaxFloor>> /\ f.indoor # ""
NewIndoorFields(f) ==
    /\ f.floorplan_selection = "new" /\ f.floorplan = None
    /\ f.floor = <<MaxFloor>> /\ f.image # "" /\ f.indoor # ""

\* The submissions of the model: every type with every pairing of the two
\* fieldsets above.
Forms ==
    {f \in AllForms :
        /\ NewLocationFields(f) \/ BlankLocationFields(f) \/ PickedLocationFields(f)
        /\ BlankIndoorFields(f) \/ PickedIndoorFields(f) \/ NewIndoorFields(f)}

\* DeviceLocationForm.__init__: the initial image is the image of the floor
\* plan the instance had when the form was built.
InitialImage(instance) == instance.floorplan.image

\* clean_floorplan without its test of the type: the submitted pk is looked
\* up for an outdoor or mobile submission too.
clean_floorplan_any_type(f) ==
    IF f.floorplan_selection = "new"
    THEN [raised |-> FALSE, value |-> None]
    ELSE IF f.floorplan = None
    THEN [raised |-> TRUE, value |-> None]
    ELSE IF f.floorplan \in DOMAIN floorplans
    THEN [raised |-> FALSE, value |-> f.floorplan]
    ELSE [raised |-> FALSE, value |-> None]

\* clean_floorplan: None unless type is indoor and the selection is not
\* "new"; an empty pk raises "Invalid selection"; an unknown pk falls through
\* the except clause and returns None.
clean_floorplan(f) ==
    IF f.type # "indoor" \/ f.floorplan_selection = "new"
    THEN [raised |-> FALSE, value |-> None]
    ELSE IF f.floorplan = None
    THEN [raised |-> TRUE, value |-> None]
    ELSE IF f.floorplan \in DOMAIN floorplans
    THEN [raised |-> FALSE, value |-> f.floorplan]
    ELSE [raised |-> FALSE, value |-> None]

\* cleaned_data after the fields were cleaned one by one, fp being what
\* clean_floorplan did.  An image field left untouched cleans to its initial
\* value; a field whose cleaning raised is not in cleaned_data (absent).
CleanedWith(f, instance, fp) ==
    [type |-> f.type,
     location_selection |-> f.location_selection,
     location |-> f.location,
     name |-> f.name,
     address |-> f.address,
     geometry |-> f.geometry,
     floorplan_selection |-> f.floorplan_selection,
     floorplan |-> fp.value,
     floor |-> f.floor,
     image |-> IF f.image = "" THEN InitialImage(instance) ELSE f.image,
     indoor |-> f.indoor,
     absent |-> IF fp.raised THEN {"floorplan"} ELSE {}]

cleaned_data(f, instance) == CleanedWith(f, instance, clean_floorplan(f))

\* Python's `not data[field]`: empty text, None, and the integer 0.
Falsy(data, field) ==
    CASE field = "floor" -> data.floor = NoFloor \/ data.floor = <<0>>
      [] field = "floorplan" -> data.floorplan = None
      [] field = "location" -> data.location = None
      [] OTHER -> data[field] = ""

\* The location's required fields with address left out of the list.
LocationRequiredButAddress(data) ==
    IF data.type \in {"outdoor", "indoor"} /\ data.location = None
    THEN {field \in {"location_selection", "name", "geometry"} :
            field \notin data.absent /\ data[field] = ""}
    ELSE {}

\* clean, lines 178-183: the fields of the location that get the requiredness
\* error.
LocationRequired(data) ==
    IF data.type \in {"outdoor", "indoor"} /\ Falsy(data, "location")
    THEN {field \in {"location_selection", "name", "address", "geometry"} :
            field \notin data.absent /\ Falsy(data, field)}
    ELSE {}

\* clean, lines 184-194: the indoor fields that get the requiredness error.
IndoorFields(data) ==
    {"floorplan_selection", "floor", "indoor"}
    \cup (IF data.floorplan_selection = "existing" THEN {"floorplan"}
          ELSE IF data.floorplan_selection = "new" THEN {"image"}
          ELSE {})

IndoorRequired(data) ==
    IF data.type = "indoor"
    THEN {field \in IndoorFields(data) :
            field \notin data.absent /\ Falsy(data, field)}
    ELSE {}

\* The fields clean gives the requiredness error.
Required(data) == LocationRequired(data) \cup IndoorRequired(data)

\* clean, lines 195-201: what a mobile submission overrides.  add_error has
\* removed the fields that got an error (required) from cleaned_data.
Overridden(data, required, instance, d) ==
    IF data.type = "mobile" /\ instance.location.ref = "none"
    THEN [data EXCEPT !.name = d, !.address = "", !.geometry = "",
                      !.location_selection = "new"]
    ELSE IF data.type = "mobile"
    THEN [data EXCEPT !.location_selection = "existing"]
    ELSE [data EXCEPT !.absent = @ \cup required]

\* `a or b` on text.
Or(a, b) == IF a # "" THEN a ELSE b

\* data.get('location') or Location()
SubmittedLocation(data) ==
    IF data.location # None THEN LocationObject(data.location) ELSE NewLocation

\* _get_location_instance: the submitted Location or a new one, each field
\* overwritten only by a non-empty submitted value.
UpdateLocation(data, location) ==
    [location EXCEPT !.name = Or(data.name, location.name),
                     !.address = Or(data.address, location.address),
                     !.geometry = Or(data.geometry, location.geometry)]

get_location_instance(data) == UpdateLocation(data, SubmittedLocation(data))

\* data.get('floorplan') or FloorPlan()
SubmittedFloorPlan(data) ==
    IF "floorplan" \notin data.absent /\ data.floorplan # None
    THEN FloorPlanObject(data.floorplan)
    ELSE NewFloorPlan

\* _get_floorplan_instance on the object `floorplan`, the instance's location
\* being `location`: the floor plan is moved to that location, its floor
\* overwritten by a truthy submitted floor, its image by a submitted image that
\* is not the form's initial image.
get_floorplan_instance(data, floorplan, location, initial) ==
    [floorplan EXCEPT
        !.location = [ref |-> location.ref, pk |-> location.pk],
        !.floor = IF Falsy(data, "floor") THEN floorplan.floor ELSE data.floor,
        !.image = IF data.image # "" /\ InitialImage(initial) # data.image
                  THEN data.image ELSE floorplan.image]

\* Location.full_clean: name may not be blank, (name, organization) is unique.
LocationErrors(location) ==
    (IF location.name = "" THEN {<<"name", "blank">>} ELSE {})
    \cup (IF \E o \in DOMAIN locations \ {location.pk} :
                locations[o].name = location.name
          THEN {<<"name", "unique">>} ELSE {})

\* FloorPlan.full_clean: location, floor and image are required (an unsaved
\* Location leaves location_id null), (location, floor) is unique.
FloorPlanErrors(floorplan) ==
    (IF floorplan.location.ref # "stored" THEN {<<"location", "null">>} ELSE {})
    \cup (IF floorplan.floor = NoFloor THEN {<<"floor", "null">>} ELSE {})
    \cup (IF floorplan.image = "" THEN {<<"image", "blank">>} ELSE {})
    \cup (IF /\ floorplan.location.ref = "stored"
             /\ floorplan.floor # NoFloor
             /\ \E o \in DOMAIN floorplans \ {floorplan.pk} :
                    /\ floorplans[o].location = floorplan.location.pk
                    /\ floorplans[o].floor = floorplan.floor[1]
          THEN {<<"floor", "unique">>} ELSE {})

\* clean, lines 202-208.  A ValidationError raised by a full_clean ends clean
\* where it is raised, so the floor plan is built and checked (reached) only
\* when the location passed; the instance then holds that floor plan, else the
\* one it had.  errors are the <<field, code>> pairs the form ends up with.
CleanObjects(data, initial, errors, location, locationErrors) ==
    [data |-> data,
     location |-> location,
     reached |-> locationErrors = {} /\ data.type = "indoor",
     floorplan |-> IF locationErrors = {} /\ data.type = "indoor"
                   THEN get_floorplan_instance(data, SubmittedFloorPlan(data),
                                               location, initial)
                   ELSE initial.floorplan,
     errors |-> errors \cup locationErrors
                \cup (IF locationErrors = {} /\ data.type = "indoor"
                      THEN FloorPlanErrors(
                                get_floorplan_instance(
                                    data, SubmittedFloorPlan(data), location,
                                    initial))
                      ELSE {})]

CleanLocation(data, initial, errors, location) ==
    CleanObjects(data, initial, errors, location, LocationErrors(location))

CleanData(cleaned, required, initial, d) ==
    CleanLocation(
        Overridden(cleaned, required, initial, d),
        initial,
        {<<field, "required">> : field \in required}
            \cup {<<field, "invalid">> : field \in cleaned.absent},
        get_location_instance(Overridden(cleaned, required, initial, d)))

CleanCleaned(cleaned, initial, d) ==
    CleanData(cleaned, Required(cleaned), initial, d)

\* DeviceLocationForm.clean on the fields f of the form bound to `initial`,
\* the DeviceLocation instance of device d.
clean(f, initial, d) == CleanCleaned(cleaned_data(f, initial), initial, d)

\* What a ModelForm does between clean and save: the cleaned values of the
\* model's fields (type, location, floorplan) are assigned to the instance,
\* each only if it is still in cleaned_data.  c is the result of clean, which
\* has left its own location and floor plan objects on the instance.
construct_instance(c) ==
    [type |-> c.data.type,
     location |-> IF c.data.location = None THEN NoRef
                  ELSE StoredRef(c.data.location),
     floorplan |-> IF "floorplan" \in c.data.absent THEN c.floorplan
                   ELSE IF c.data.floorplan = None THEN NoFloorPlan
                   ELSE IF c.reached THEN c.floorplan
                   ELSE FloorPlanObject(c.data.floorplan)]

\* DeviceLocation._clean_location reads self.floorplan.location: with no floor
\* plan on an indoor instance that is an AttributeError, not a validation
\* error.
CleanLocationFails(instance) ==
    instance.type = "indoor" /\ instance.floorplan.ref = "none"

\* DeviceLocation.clean -> _clean_location: the validation error.
clean_location(instance) ==
    IF /\ instance.type = "indoor"
       /\ ~ModelEq(instance.location, instance.floorplan.location)
    THEN {<<"__all__", "different_location">>}
    ELSE {}

\* Location.save / FloorPlan.save: insert under a fresh id or update the row.
SavedLocationId(location) ==
    IF location.pk = None THEN NextLocationId ELSE location.pk

SaveLocationAt(location, id) ==
    [i \in DOMAIN locations \cup {id} |->
        IF i = id
        THEN [name |-> location.name, address |-> location.address,
              geometry |-> location.geometry]
        ELSE locations[i]]

SaveLocation(location) == SaveLocationAt(location, SavedLocationId(location))

SavedFloorPlanId(floorplan) ==
    IF floorplan.pk = None THEN NextFloorPlanId ELSE floorplan.pk

SaveFloorPlanAt(floorplan, id) ==
    [i \in DOMAIN floorplans \cup {id} |->
        IF i = id
        THEN [location |-> floorplan.location.pk, floor |-> floorplan.floor[1],
              image |-> floorplan.image]
        ELSE floorplans[i]]

SaveFloorPlan(floorplan) == SaveFloorPlanAt(floorplan, SavedFloorPlanId(floorplan))

\* DeviceLocationForm.save, lines 241-246: the floor plan is rebuilt on the
\* saved location and saved when type is indoor, then the DeviceLocation row
\* is saved.
SaveRest(c, instance, initial, locationId) ==
    [floorplans |->
        IF c.data.type = "indoor"
        THEN SaveFloorPlan(
                get_floorplan_instance(
                    c.data,
                    IF "floorplan" \notin c.data.absent /\ c.data.floorplan # None
                    THEN c.floorplan ELSE NewFloorPlan,
                    StoredRef(locationId), initial))
        ELSE floorplans,
     devicelocation |->
        [type |-> instance.type,
         location |-> locationId,
         floorplan |->
            IF c.data.type = "indoor"
            THEN IF "floorplan" \notin c.data.absent /\ c.data.floorplan # None
                 THEN c.floorplan.pk ELSE NextFloorPlanId
            ELSE instance.floorplan.pk]]

\* DeviceLocationForm.save, lines 238-240: the location is rebuilt from
\* cleaned_data and saved first.
save_location(c) == SaveLocation(get_location_instance(c.data))

save_rest(c, instance, initial) ==
    SaveRest(c, instance, initial,
             SavedLocationId(get_location_instance(c.data)))

\* The outcome of is_valid: the instance's own validation (DeviceLocation.clean)
\* follows clean; an AttributeError there is a server error, any error on the
\* form makes it invalid.
Outcome(c, instance) ==
    [result |-> IF CleanLocationFails(instance) THEN "error"
                ELSE IF c.errors \cup clean_location(instance) = {} THEN "saved"
                ELSE "invalid",
     errors |-> IF CleanLocationFails(instance) THEN c.errors
                ELSE c.errors \cup clean_location(instance),
     c |-> c,
     instance |-> instance]

HandleCleaned(c) == Outcome(c, construct_instance(c))

\* One submission of the fields f for device d, up to the decision to save.
Handle(d, f) == HandleCleaned(clean(f, InstanceOf(d), d))

\* ------------------------------------------------------------------ actions
NoForm ==
    [type |-> "", location_selection |-> "", location |-> None, name |-> "",
     address |-> "", geometry |-> "", floorplan_selection |-> "",
     floorplan |-> None, floor |-> NoFloor, image |-> "", indoor |-> ""]
NoRequest == [device |-> "", form |-> NoForm]
NoResponse == [result |-> "", errors |-> {}, initial |-> NoDeviceLocation]

Init ==
    /\ locations = <<>>
    /\ floorplans = <<>>
    /\ devicelocations = [d \in Devices |-> NoDeviceLocation]
    /\ phase = "idle"
    /\ req = NoRequest
    /\ resp = NoResponse

\* The request is handled with the outcome h: the rows change only when the
\* form was saved.  A save that needs a fresh id is possible only while one is
\* left.
RespondWith(d, f, h) ==
    /\ (h.result = "saved" /\ h.c.location.pk = None) => FreeLocationIds # {}
    /\ (h.result = "saved" /\ f.type = "indoor" /\ h.c.floorplan.pk = None)
            => FreeFloorPlanIds # {}
    /\ req' = [device |-> d, form |-> f]
    /\ resp' = [result |-> h.result, errors |-> h.errors,
                initial |-> devicelocations[d]]
    /\ IF h.result = "saved"
       THEN /\ locations' = save_location(h.c)
            /\ floorplans' = save_rest(h.c, h.instance, InstanceOf(d)).floorplans
            /\ devicelocations' =
                [devicelocations EXCEPT
                    ![d] = save_rest(h.c, h.instance, InstanceOf(d)).devicelocation]
       ELSE UNCHANGED <<locations, floorplans, devicelocations>>

Respond(d, f) ==
    /\ f.location \in {None} \cup DOMAIN locations
    /\ RespondWith(d, f, Handle(d, f))

\* The inline form of device d is submitted with the fields f.
Submit(d, f) ==
    /\ phase = "idle"
    /\ phase' = "handled"
    /\ Respond(d, f)

\* The same fields are submitted once more for the same device.
Resubmit ==
    /\ phase = "handled"
    /\ resp.result = "saved"
    /\ phase' = "resubmitted"
    /\ Respond(req.device, req.form)

\* The response is delivered.
Done ==
    /\ phase \in {"handled", "resubmitted"}
    /\ phase' = "idle"
    /\ req' = NoRequest
    /\ resp' = NoResponse
    /\ UNCHANGED <<locations, floorplans, devicelocations>>

\* DeviceLocation.delete: the row is deleted, then, for type mobile, its
\* location.  Location.delete cascades to the location's floor plans and is
\* refused (ProtectedError, nothing deleted) while a DeviceLocation row still
\* references the location or one of those floor plans.
Protected(location, rows) ==
    \E e \in Devices :
        /\ rows[e].type # ""
        /\ \/ rows[e].location = location
           \/ /\ rows[e].floorplan # None
              /\ floorplans[rows[e].floorplan].location = location

Delete(d) ==
    LET row == devicelocations[d]
        rows == [devicelocations EXCEPT ![d] = NoDeviceLocation]
    IN
    /\ phase = "idle"
    /\ row.type # ""
    /\ devicelocations' = rows
    /\ IF row.type = "mobile" /\ ~Protected(row.location, rows)
       THEN /\ locations' = [i \in DOMAIN locations \ {row.location} |-> locations[i]]
            /\ floorplans' = [i \in {j \in DOMAIN floorplans :
                                        floorplans[j].location # row.location}
                                |-> floorplans[i]]
       ELSE UNCHANGED <<locations, floorplans>>
    /\ UNCHANGED <<phase, req, resp>>

\* FloorPlanAdmin: a floor plan is added for a stored location.
AddedFloorPlan(location, floor, image) ==
    [NewFloorPlan EXCEPT !.location = StoredRef(location), !.floor = <<floor>>,
                         !.image = image]

AddFloorPlan(location, floor, image) ==
    /\ phase = "idle"
    /\ location \in DOMAIN locations
    /\ FreeFloorPlanIds # {}
    /\ FloorPlanErrors(AddedFloorPlan(location, floor, image)) = {}
    /\ floorplans' = SaveFloorPlan(AddedFloorPlan(location, floor, image))
    /\ UNCHANGED <<locations, devicelocations, phase, req, resp>>

\* Every step of the program, the form fields drawn from the set F.
Step(F) ==
    \/ \E d \in Devices, f \in F : Submit(d, f)
    \/ Resubmit
    \/ Done
    \/ \E d \in Devices : Delete(d)
    \/ \E l \in LocationIds, n \in 0 .. MaxFloor, i \in FormImages \ {""} :
            AddFloorPlan(l, n, i)

Next == Step(Forms)

Spec == Init /\ [][Next]_vars

\* Outdoor submissions: with no location picked, every combination of the
\* geographic fields; and the mobile submissions that give a second location
\* its name.  The indoor fieldset is blank or names a stored floor plan.
OutdoorForms ==
    {f \in AllForms :
        /\ BlankIndoorFields(f) \/ (PickedIndoorFields(f) /\ f.image = "")
        /\ \/ f.type = "outdoor" /\ (f.location = None \/ PickedLocationFields(f))
           \/ f.type = "mobile" /\ BlankLocationFields(f) /\ BlankIndoorFields(f)}

NextOutdoor == Step(OutdoorForms)

SpecOutdoor == Init /\ [][NextOutdoor]_vars

\* Indoor submissions with every combination of the indoor fields, and the
\* outdoor submissions that create the location they are made for.
IndoorForms ==
    {f \in AllForms :
        \/ /\ f.type = "indoor"
           /\ BlankLocationFields(f) \/ (PickedLocationFields(f) /\ f.name = "")
        \/ /\ f.type = "outdoor"
           /\ NewLocationFields(f) /\ BlankIndoorFields(f)}

NextIndoor == Step(IndoorForms)

SpecIndoor == Init /\ [][NextIndoor]_vars

\* Submissions that change the type of an assignment: every type with a
\* location picked or left to the form, and any state of the indoor fieldset.
TypeForms ==
    {f \in AllForms :
        /\ BlankLocationFields(f) \/ (PickedLocationFields(f) /\ f.name = "")
        /\ \/ BlankIndoorFields(f)
           \/ PickedIndoorFields(f) /\ f.image = ""
           \/ NewIndoorFields(f)}

NextTypes == Step(TypeForms)

SpecTypes == Init /\ [][NextTypes]_vars

\* ------------------------------------------------------------------ claims
\* A step that handles a first submission of a form.
Submitted == phase = "idle" /\ phase' = "handled"

\* C1: every stored assignment of type indoor references a Location and a
\* FloorPlan, and that FloorPlan's location is the assignment's Location.
C1_IndoorConsistent ==
    \A d \in Devices :
        devicelocations[d].type = "indoor" =>
            /\ devicelocations[d].location \in DOMAIN locations
            /\ devicelocations[d].floorplan \in DOMAIN floorplans
            /\ floorplans[devicelocations[d].floorplan].location
                    = devicelocations[d].location

\* C2: an indoor submission that picks a stored FloorPlan whose location is
\* not the submitted Location is rejected, and the FloorPlan keeps its
\* location.
C2_MismatchRejected ==
    [][(/\ Submitted
        /\ req'.form.type = "indoor"
        /\ req'.form.floorplan_selection = "existing"
        /\ req'.form.floorplan \in DOMAIN floorplans
        /\ floorplans[req'.form.floorplan].location # req'.form.location)
       => /\ resp'.result # "saved"
          /\ req'.form.floorplan \in DOMAIN floorplans'
          /\ floorplans'[req'.form.floorplan].location
                = floorplans[req'.form.floorplan].location]_vars

\* C3: the Location of a mobile assignment is referenced by no other
\* assignment.
C3_MobileExclusive ==
    \A d \in Devices, e \in Devices :
        (/\ d # e
         /\ devicelocations[d].type = "mobile"
         /\ devicelocations[e].type # "")
        => devicelocations[e].location # devicelocations[d].location

\* C4: deleting a mobile assignment removes the assignment and its Location;
\* deleting an outdoor or indoor assignment leaves the Locations and the
\* FloorPlans as they were.
C4_DeleteCascade ==
    [][\A d \in Devices :
        (devicelocations[d].type # "" /\ devicelocations'[d].type = "")
        => IF devicelocations[d].type = "mobile"
           THEN devicelocations[d].location \notin DOMAIN locations'
           ELSE locations' = locations /\ floorplans' = floorplans]_vars

\* C6: every stored assignment of type outdoor or mobile references a Location
\* and no FloorPlan.
C6_NoFloorPlanOutsideIndoor ==
    \A d \in Devices :
        devicelocations[d].type \in {"outdoor", "mobile"} =>
            /\ devicelocations[d].location \in DOMAIN locations
            /\ devicelocations[d].floorplan = None

\* C6 witness: an indoor assignment with a floor plan was saved as outdoor or
\* mobile with the floor plan's pk still submitted.
C6_Witness ==
    /\ phase = "handled"
    /\ resp.result = "saved"
    /\ resp.initial.type = "indoor"
    /\ resp.initial.floorplan # None
    /\ req.form.floorplan = resp.initial.floorplan
    /\ req.form.type \in {"outdoor", "mobile"}
    /\ devicelocations[req.device].type = req.form.type
    /\ devicelocations[req.device].floorplan = None

\* The name the submitted fields give the location: the typed name, else the
\* picked location's name.
ResolvedName(f) ==
    IF f.name # "" THEN f.name
    ELSE IF f.location # None THEN locations[f.location].name
    ELSE ""

\* C7 as stated: an outdoor submission is saved if and only if a Location is
\* picked or name, address and geometry are all supplied.
C7_OutdoorIffResolvable ==
    [][(Submitted /\ req'.form.type = "outdoor")
       => (resp'.result = "saved"
            <=> \/ req'.form.location # None
                \/ /\ req'.form.name # ""
                   /\ req'.form.address # ""
                   /\ req'.form.geometry # "")]_vars

\* C7 as amended: an outdoor submission is saved if and only if a Location is
\* picked or location_selection, name, address and geometry are all supplied,
\* and no other stored Location has the resulting name; the indoor fields play
\* no part.
C7_OutdoorIffValid ==
    [][(Submitted /\ req'.form.type = "outdoor")
       => (resp'.result = "saved"
            <=> /\ \/ req'.form.location # None
                   \/ /\ req'.form.location_selection # ""
                      /\ req'.form.name # ""
                      /\ req'.form.address # ""
                      /\ req'.form.geometry # ""
                /\ \A o \in DOMAIN locations \ {req'.form.location} :
                        locations[o].name # ResolvedName(req'.form))]_vars

\* C7 witness: an outdoor submission with every indoor field blank and no
\* Location picked was saved and created its Location.
C7_Witness ==
    /\ phase = "handled"
    /\ resp.result = "saved"
    /\ req.form.type = "outdoor"
    /\ req.form.location = None
    /\ BlankIndoorFields(req.form)
    /\ devicelocations[req.device].location \in DOMAIN locations
    /\ locations[devicelocations[req.device].location].name = req.form.name

\* C8, for the three fields an indoor submission always requires: when the
\* form is returned with its errors, floorplan_selection, floor and indoor
\* each carry the requiredness error exactly when no value was submitted for
\* them, a floor being any integer.
C8_RequiredExactly ==
    [][(Submitted /\ req'.form.type = "indoor" /\ resp'.result = "invalid")
       => /\ <<"floorplan_selection", "required">> \in resp'.errors
                <=> req'.form.floorplan_selection = ""
          /\ <<"floor", "required">> \in resp'.errors
                <=> req'.form.floor = NoFloor
          /\ <<"indoor", "required">> \in resp'.errors
                <=> req'.form.indoor = ""]_vars

\* C9: a second save of the same submitted values creates no Location and no
\* FloorPlan and leaves every stored name, address, floor and image as it is.
C9_Idempotent ==
    [][(phase = "handled" /\ phase' = "resubmitted")
       => /\ DOMAIN locations' = DOMAIN locations
          /\ DOMAIN floorplans' = DOMAIN floorplans
          /\ \A l \in DOMAIN locations :
                /\ locations'[l].name = locations[l].name
                /\ locations'[l].address = locations[l].address
          /\ \A p \in DOMAIN floorplans :
                /\ floorplans'[p].floor = floorplans[p].floor
                /\ floorplans'[p].image = floorplans[p].image]_vars

\* C10: a mobile save of an assignment without a location creates a Location
\* named after the device, with empty address and geometry, that the
\* assignment references, and changes no Location that existed before.
C10_MobileCreates ==
    [][(/\ Submitted
        /\ req'.form.type = "mobile"
        /\ devicelocations[req'.device].location = None
        /\ resp'.result = "saved")
       => /\ devicelocations'[req'.device].location \notin DOMAIN locations
          /\ locations'[devicelocations'[req'.device].location]
                = [name |-> req'.device, address |-> "", geometry |-> ""]
          /\ \A l \in DOMAIN locations : locations'[l] = locations[l]]_vars

====
